---- MODULE Spec2Model ----
(***************************************************************************)
(* Model of the task-timer state machine of src/src/App.jsx: the React     *)
(* state `tasks` and `autoPlay`, the localStorage entry 'tasks', the       *)
(* one-second tick with its autoplay hand-off, the list mutations, the     *)
(* drag reorder and the Pomodoro expansion.                                *)
(*                                                                         *)
(* `timer` is the time in ms until the interval created by the last run of *)
(* the interval effect fires.  Spec lets a tick happen at any moment;      *)
(* SpecTimed lets it happen when the timer is due; SpecChain is the App    *)
(* left alone, with the interval firing again and again.                   *)
(*                                                                         *)
(* A task is a record.  JavaScript's `undefined` for an optional field is  *)
(* written as the empty value of the field's type: mode "", tags {},       *)
(* originalName <<>>, partNumber / totalParts / breakNumber 0 (the code     *)
(* only ever stores values >= 1 in them).  A name is a sequence of string  *)
(* pieces, so that trimming and the template strings of the expansion are  *)
(* computed rather than assumed.                                           *)
(***************************************************************************)
EXTENDS Integers, Sequences, FiniteSets, TLC

VARIABLES tasks, autoPlay, storage, now, phase, events, lastOp, timer

vars == <<tasks, autoPlay, storage, now, phase, events, lastOp, timer>>

(***************************************************************************)
(* Bounds of the exploration.                                              *)
(***************************************************************************)
MaxEvents == 4       \* number of events (effects, handlers, ticks) explored
MaxExpanded == 4     \* longest list a Pomodoro expansion may produce
MaxStored == 2       \* longest persisted list at start-up
MaxSession == 1      \* longest list at the start of a timed session
MaxChain == 3        \* longest list at the start of an unattended run

(***************************************************************************)
(* Inputs.                                                                 *)
(***************************************************************************)
ClockStart == {10}                  \* Date.now() when the page is opened
AbsentIds == {0}                    \* an id no task carries
StoredTimeLeft == {1, 2}            \* timeLeft of persisted tasks
NameInputs == {<<>>, <<" ">>, <<" ", "A">>}   \* content of the name field
MinutesInputs == {<<>>, <<-1>>, <<0>>, <<2>>} \* content of the minutes field
WorkInputs == {0, 1, 2}             \* Work Duration field of the dialog
BreakInputs == {-1, 1}              \* Break Duration field of the dialog

Min(a, b) == IF a < b THEN a ELSE b

Indices(s) == 1..Len(s)

IdsOf(s) == {s[i].id : i \in Indices(s)}

IdSeq(s) == [i \in Indices(s) |-> s[i].id]

(***************************************************************************)
(* The record of the last handler that ran: its name, its integer          *)
(* arguments, whether the save effect ran (a new `tasks` snapshot was      *)
(* committed) and, for a tick, the 1-based index the hand-off acted on.    *)
(* For the mount the argument is the number of persisted records whose     *)
(* `running` was true, for a tick the number of tasks it brought to 0, for *)
(* addTask the minutes field; addTask also records the text typed.         *)
(***************************************************************************)
Op(name, args, saved, idx) ==
    [op |-> name, args |-> args, saved |-> saved, idx |-> idx]

(***************************************************************************)
(* Persistence.  The entry is absent, unparsable text, or the JSON of an   *)
(* array; JSON.stringify writes every defined field of every task.         *)
(***************************************************************************)
Absent == [kind |-> "absent", val |-> <<>>]
Corrupt == [kind |-> "corrupt", val |-> <<>>]

Save(ts) == [kind |-> "array", val |-> ts]

(***************************************************************************)
(* Program constants.                                                      *)
(***************************************************************************)
SecondsPerMinute == 60
DefaultMinutes == 60
LoadDefaultMinutes == 1
IdStride == 1000
TaskBreakOffset == 9999
Interval == 1000

(***************************************************************************)
(* A task with the optional fields undefined.                              *)
(***************************************************************************)
Task(id, name, minutes, timeLeft, running, completed, mode) ==
    [id |-> id, name |-> name, minutes |-> minutes, timeLeft |-> timeLeft,
     running |-> running, completed |-> completed, mode |-> mode,
     tags |-> {}, originalName |-> <<>>, partNumber |-> 0, totalParts |-> 0,
     breakNumber |-> 0]

(***************************************************************************)
(* The persisted lists the page may find at start-up: lists an earlier     *)
(* session saved (ids distinct, 0 < timeLeft <= minutes*60), with either   *)
(* value of the persisted running flag.                                    *)
(***************************************************************************)
StoredTask(i) ==
    {Task(i, <<"A">>, 1, tl, r, FALSE, "countdown") :
        tl \in StoredTimeLeft, r \in BOOLEAN}

StoredLists ==
    UNION {{s \in [1..n -> UNION {StoredTask(i) : i \in 1..n}] :
                \A i \in 1..n : s[i] \in StoredTask(i)} : n \in 1..MaxStored}

InitialStorage == {Absent, Corrupt} \cup {Save(s) : s \in StoredLists}

(***************************************************************************)
(* Load effect: each parsed record is rebuilt with exactly seven fields;   *)
(* `x || d` takes d when x is falsy ("" , 0, false, undefined).            *)
(***************************************************************************)
ValidateKeepsRunning(t) ==
    Task(t.id,
         IF t.name = <<>> THEN <<"Unnamed Task">> ELSE t.name,
         IF t.minutes = 0 THEN LoadDefaultMinutes ELSE t.minutes,
         t.timeLeft,
         t.running,
         t.completed,
         IF t.mode = "" THEN "countdown" ELSE t.mode)

Validate(t) ==
    Task(t.id,
         IF t.name = <<>> THEN <<"Unnamed Task">> ELSE t.name,
         IF t.minutes = 0 THEN LoadDefaultMinutes ELSE t.minutes,
         t.timeLeft,
         FALSE,
         t.completed,
         IF t.mode = "" THEN "countdown" ELSE t.mode)

Loaded(st) ==
    IF st.kind = "array" /\ Len(st.val) > 0
    THEN [i \in Indices(st.val) |-> Validate(st.val[i])]
    ELSE <<>>

(***************************************************************************)
(* Init: the state of the first render, before any effect has run.         *)
(***************************************************************************)
Init ==
    /\ tasks = <<>>
    /\ autoPlay = FALSE
    /\ storage \in InitialStorage
    /\ now \in ClockStart
    /\ phase = "render"
    /\ events = 0
    /\ lastOp = Op("init", <<>>, FALSE, 0)
    /\ timer = 0

(***************************************************************************)
(* Every effect run, handler call and timer callback is one event.         *)
(***************************************************************************)
Event ==
    /\ events < MaxEvents
    /\ events' = events + 1

(***************************************************************************)
(* Mount: the effects of the first render in source order.  The load       *)
(* effect parses the entry (removing it when JSON.parse throws) and queues *)
(* the validated list; the save effect then writes the list of the first   *)
(* render, which is empty; when a list was queued the re-render commits it *)
(* and the save effect writes it.                                          *)
(***************************************************************************)
PersistedRunning(st) ==
    IF st.kind = "array"
    THEN Cardinality({i \in Indices(st.val) : st.val[i].running})
    ELSE 0

Mount ==
    /\ phase = "render"
    /\ Event
    /\ LET afterLoad == IF storage.kind = "corrupt" THEN Absent ELSE storage
           firstSave == Save(<<>>)
           validated == Loaded(afterLoad)
       IN  /\ tasks' = validated
           /\ storage' = IF validated # <<>> THEN Save(validated) ELSE firstSave
    /\ phase' = "ready"
    /\ timer' = Interval
    /\ lastOp' = Op("mount", <<PersistedRunning(storage)>>, TRUE, 0)
    /\ UNCHANGED <<autoPlay, now>>

(***************************************************************************)
(* Commit a new `tasks` snapshot: the re-render runs the effects that list *)
(* `tasks` in their dependencies.  The save effect writes the whole list;  *)
(* the interval effect clears its interval and creates a new one.          *)
(***************************************************************************)
Commit(newTasks) ==
    /\ tasks' = newTasks
    /\ storage' = Save(newTasks)
    /\ timer' = Interval

(***************************************************************************)
(* Array.prototype.findIndex, given the set of the 1-based positions whose  *)
(* element satisfies the predicate: the 0-based index of the first match,  *)
(* -1 when there is none.                                                  *)
(***************************************************************************)
findIndex(matches) ==
    IF matches = {}
    THEN -1
    ELSE (CHOOSE i \in matches : \A j \in matches : i <= j) - 1

(***************************************************************************)
(* The tick callback of setInterval.                                       *)
(***************************************************************************)
Counting(task) == task.running /\ task.timeLeft > 0

TickNeverReturnsPrev(prevTasks) == FALSE

TickReturnsPrev(prevTasks) ==
    ~ \E i \in Indices(prevTasks) : Counting(prevTasks[i])

DecrementKeepsCompleted(task) ==
    [task EXCEPT !.timeLeft = task.timeLeft - 1]

Decrement(task) ==
    [task EXCEPT !.timeLeft = task.timeLeft - 1,
                 !.completed = (task.timeLeft - 1 = 0)]

DecrementAll(prevTasks) ==
    [i \in Indices(prevTasks) |->
        IF Counting(prevTasks[i]) THEN Decrement(prevTasks[i]) ELSE prevTasks[i]]

shouldStartNextTask(prevTasks, ap) ==
    \E i \in Indices(prevTasks) :
        Counting(prevTasks[i]) /\ prevTasks[i].timeLeft - 1 = 0 /\ ap

currentRunningIndexLast(prevTasks) ==
    LET matches == {i \in Indices(prevTasks) :
                       prevTasks[i].running /\ prevTasks[i].timeLeft = 1}
    IN  IF matches = {}
        THEN -1
        ELSE (CHOOSE i \in matches : \A j \in matches : i >= j) - 1

currentRunningIndex(prevTasks) ==
    findIndex({i \in Indices(prevTasks) :
                  prevTasks[i].running /\ prevTasks[i].timeLeft = 1})

StartNextNever(updatedTasks, nextTaskIndex) == updatedTasks

StartNext(updatedTasks, nextTaskIndex) ==
    IF nextTaskIndex < Len(updatedTasks)
       /\ updatedTasks[nextTaskIndex + 1].timeLeft > 0
    THEN [updatedTasks EXCEPT ![nextTaskIndex + 1].running = TRUE]
    ELSE updatedTasks

HandOffKeepsRunning(prevTasks, updatedTasks) ==
    LET cur == currentRunningIndex(prevTasks)
    IN  IF cur # -1 THEN StartNext(updatedTasks, cur + 1) ELSE updatedTasks

HandOff(prevTasks, updatedTasks) ==
    LET cur == currentRunningIndex(prevTasks)
    IN  IF cur # -1
        THEN StartNext([updatedTasks EXCEPT ![cur + 1].running = FALSE], cur + 1)
        ELSE updatedTasks

TickUpdater(prevTasks, ap) ==
    IF shouldStartNextTask(prevTasks, ap) /\ ap
    THEN HandOff(prevTasks, DecrementAll(prevTasks))
    ELSE DecrementAll(prevTasks)

HandOffIndex(prevTasks, ap) ==
    IF shouldStartNextTask(prevTasks, ap) /\ ap
    THEN currentRunningIndex(prevTasks) + 1
    ELSE 0

Completing(prevTasks) ==
    Cardinality({i \in Indices(prevTasks) :
                    Counting(prevTasks[i]) /\ prevTasks[i].timeLeft - 1 = 0})

TickCallback ==
    /\ phase = "ready"
    /\ IF TickReturnsPrev(tasks)
       THEN /\ UNCHANGED <<tasks, storage>>
            /\ timer' = Interval
            /\ lastOp' = Op("tick", <<>>, FALSE, 0)
       ELSE /\ Commit(TickUpdater(tasks, autoPlay))
            /\ lastOp' = Op("tick", <<Completing(tasks)>>, TRUE,
                            HandOffIndex(tasks, autoPlay))
    /\ UNCHANGED <<autoPlay, now, phase>>

Tick ==
    /\ Event
    /\ TickCallback

(***************************************************************************)
(* The millisecond clock read by Date.now().                               *)
(***************************************************************************)
ClockAdvance ==
    /\ phase = "ready"
    /\ Event
    /\ now' = now + 1
    /\ lastOp' = Op("clock", <<>>, FALSE, 0)
    /\ UNCHANGED <<tasks, autoPlay, storage, phase, timer>>

(***************************************************************************)
(* addTask.  String.prototype.trim drops the white space at both ends;     *)
(* Number("") is 0.                                                        *)
(***************************************************************************)
IsSpace(c) == c = " "

RECURSIVE TrimStart(_)
TrimStart(str) ==
    IF str # <<>> /\ IsSpace(Head(str)) THEN TrimStart(Tail(str)) ELSE str

RECURSIVE TrimEnd(_)
TrimEnd(str) ==
    IF str # <<>> /\ IsSpace(str[Len(str)])
    THEN TrimEnd(SubSeq(str, 1, Len(str) - 1))
    ELSE str

trim(str) == TrimEnd(TrimStart(str))

Number(field) == IF field = <<>> THEN 0 ELSE field[1]

numMinutesOnlyZero(field) ==
    IF Number(field) = 0
    THEN DefaultMinutes
    ELSE Number(field)

numMinutes(field) ==
    IF Number(field) = 0 \/ Number(field) <= 0
    THEN DefaultMinutes
    ELSE Number(field)

newTask(id, trimmedTask, mins) ==
    Task(id, trimmedTask, mins, mins * SecondsPerMinute, FALSE, FALSE, "countdown")

Typed(op, text) ==
    [op |-> op.op, args |-> op.args, saved |-> op.saved, idx |-> op.idx,
     text |-> text]

addTask(task, minutes) ==
    /\ phase = "ready"
    /\ Event
    /\ IF trim(task) = <<>>
       THEN /\ UNCHANGED <<tasks, storage, timer>>
            /\ lastOp' = Typed(Op("addTask", <<>>, FALSE, 0), task)
       ELSE /\ Commit(Append(tasks, newTask(now, trim(task), numMinutes(minutes))))
            /\ lastOp' = Typed(Op("addTask", minutes, TRUE, 0), task)
    /\ UNCHANGED <<autoPlay, now, phase>>

(***************************************************************************)
(* removeTask, toggleRunning, toggleAutoPlay, resetTask, resetAllTask,     *)
(* clearAllTasks.                                                          *)
(***************************************************************************)
removeTaskUpdater(prev, id) == SelectSeq(prev, LAMBDA t : t.id # id)

removeTask(id) ==
    /\ phase = "ready"
    /\ Event
    /\ Commit(removeTaskUpdater(tasks, id))
    /\ lastOp' = Op("removeTask", <<id>>, TRUE, 0)
    /\ UNCHANGED <<autoPlay, now, phase>>

toggleRunningStopsSiblings(prev, id, ap) ==
    [i \in Indices(prev) |->
        IF prev[i].id = id
        THEN [prev[i] EXCEPT !.running = ~prev[i].running]
        ELSE IF ap /\ prev[i].running
             THEN [prev[i] EXCEPT !.running = FALSE]
             ELSE prev[i]]

toggleRunningUpdater(prev, id, ap) ==
    [i \in Indices(prev) |->
        IF prev[i].id = id
        THEN [prev[i] EXCEPT !.running = ~prev[i].running]
        ELSE IF ap /\ ~prev[i].running
             THEN [prev[i] EXCEPT !.running = FALSE]
             ELSE prev[i]]

toggleRunning(id) ==
    /\ phase = "ready"
    /\ Event
    /\ Commit(toggleRunningUpdater(tasks, id, autoPlay))
    /\ lastOp' = Op("toggleRunning", <<id>>, TRUE, 0)
    /\ UNCHANGED <<autoPlay, now, phase>>

toggleAutoPlay ==
    /\ phase = "ready"
    /\ Event
    /\ autoPlay' = ~autoPlay
    /\ timer' = Interval
    /\ lastOp' = Op("toggleAutoPlay", <<>>, FALSE, 0)
    /\ UNCHANGED <<tasks, storage, now, phase>>

ResetOneKeepsRunning(t) ==
    [t EXCEPT !.timeLeft = t.minutes * SecondsPerMinute]

ResetOne(t) ==
    [t EXCEPT !.timeLeft = t.minutes * SecondsPerMinute, !.running = FALSE]

resetTaskUpdater(prev, id) ==
    [i \in Indices(prev) |-> IF prev[i].id = id THEN ResetOne(prev[i]) ELSE prev[i]]

resetTask(id) ==
    /\ phase = "ready"
    /\ Event
    /\ Commit(resetTaskUpdater(tasks, id))
    /\ lastOp' = Op("resetTask", <<id>>, TRUE, 0)
    /\ UNCHANGED <<autoPlay, now, phase>>

resetAllUpdated(ts) ==
    [i \in Indices(ts) |->
        [ts[i] EXCEPT !.timeLeft = ts[i].minutes * SecondsPerMinute,
                      !.running = FALSE]]

resetAllTask ==
    /\ phase = "ready"
    /\ Event
    /\ Commit(resetAllUpdated(tasks))
    /\ lastOp' = Op("resetAllTask", <<>>, TRUE, 0)
    /\ UNCHANGED <<autoPlay, now, phase>>

(***************************************************************************)
(* clearAllTasks: the button is disabled on an empty list; after a         *)
(* confirmed prompt the entry is removed and the re-render with the empty  *)
(* list runs the save effect.                                              *)
(***************************************************************************)
clearAllTasksRemovesLast(confirmed) ==
    /\ phase = "ready"
    /\ Event
    /\ Len(tasks) # 0
    /\ IF confirmed
       THEN /\ tasks' = <<>>
            /\ storage' = Absent
            /\ timer' = Interval
            /\ lastOp' = Op("clearAllTasks", <<>>, TRUE, 0)
       ELSE /\ UNCHANGED <<tasks, storage, timer>>
            /\ lastOp' = Op("clearAllTasks", <<>>, FALSE, 0)
    /\ UNCHANGED <<autoPlay, now, phase>>

clearAllTasks(confirmed) ==
    /\ phase = "ready"
    /\ Event
    /\ Len(tasks) # 0
    /\ IF confirmed
       THEN /\ Commit(<<>>)
            /\ lastOp' = Op("clearAllTasks", <<>>, TRUE, 0)
       ELSE /\ UNCHANGED <<tasks, storage, timer>>
            /\ lastOp' = Op("clearAllTasks", <<>>, FALSE, 0)
    /\ UNCHANGED <<autoPlay, now, phase>>

(***************************************************************************)
(* handleDragEnd.  arrayMove(array, from, to) of @dnd-kit/sortable copies  *)
(* the array, removes the element at `from` and inserts it at `to`         *)
(* (0-based; both ids come from rendered tasks, so both indices exist).    *)
(***************************************************************************)
RemoveAt(s, i) == SubSeq(s, 1, i - 1) \o SubSeq(s, i + 1, Len(s))

InsertAt(s, i, x) == SubSeq(s, 1, i - 1) \o <<x>> \o SubSeq(s, i, Len(s))

arrayMove(array, from, to) ==
    InsertAt(RemoveAt(array, from + 1), to + 1, array[from + 1])

indexOfId(items, id) == findIndex({i \in Indices(items) : items[i].id = id})

handleDragEndSwaps(items, activeId, overId) ==
    LET oldIndex == indexOfId(items, activeId) + 1
        newIndex == indexOfId(items, overId) + 1
    IN  [items EXCEPT ![oldIndex] = items[newIndex], ![newIndex] = items[oldIndex]]

handleDragEndUpdater(items, activeId, overId) ==
    arrayMove(items, indexOfId(items, activeId), indexOfId(items, overId))

handleDragEnd(activeId, overId) ==
    /\ phase = "ready"
    /\ Event
    /\ IF activeId # overId
       THEN /\ Commit(handleDragEndUpdater(tasks, activeId, overId))
            /\ lastOp' = Op("handleDragEnd", <<activeId, overId>>, TRUE, 0)
       ELSE /\ UNCHANGED <<tasks, storage, timer>>
            /\ lastOp' = Op("handleDragEnd", <<activeId, overId>>, FALSE, 0)
    /\ UNCHANGED <<autoPlay, now, phase>>

(***************************************************************************)
(* handleAddPomodoro.  `index` and `sessionCount` are the source's: index  *)
(* is 0-based.  Date.now() is read once per expansion (the updater runs    *)
(* within one millisecond).  The pieces of the template strings are kept   *)
(* without their emoji glyphs.                                             *)
(***************************************************************************)
Ceil(a, b) == -((-a) \div b)

WorkSession(task, index, sessionCount, workSessionMinutes, workMinutes, t) ==
    [task EXCEPT
        !.id = t + index * IdStride + sessionCount * 2,
        !.name = task.name \o <<" - Part ", ToString(sessionCount), " (",
                                ToString(workSessionMinutes), "min)">>,
        !.minutes = workSessionMinutes,
        !.timeLeft = workSessionMinutes * SecondsPerMinute,
        !.running = FALSE,
        !.completed = FALSE,
        !.originalName = task.name,
        !.tags = task.tags \cup {"isPomodoroWork"},
        !.partNumber = sessionCount,
        !.totalParts = Ceil(task.minutes, workMinutes)]

Break(index, sessionCount, breakMinutes, t) ==
    [Task(t + index * IdStride + sessionCount * 2 + 1,
          <<"Break ", ToString(sessionCount), " (", ToString(breakMinutes), "min)">>,
          breakMinutes, breakMinutes * SecondsPerMinute, FALSE, FALSE, "")
        EXCEPT !.tags = {"isPomodoroBreak"}, !.breakNumber = sessionCount]

TaskBreak(index, breakMinutes, t) ==
    [Task(t + index * IdStride + TaskBreakOffset,
          <<"Task Break (", ToString(breakMinutes), "min)">>,
          breakMinutes, breakMinutes * SecondsPerMinute, FALSE, FALSE, "")
        EXCEPT !.tags = {"isPomodoroTaskBreak"}]

RECURSIVE Sessions(_, _, _, _, _, _, _)
Sessions(task, index, workMinutes, breakMinutes, t, remainingMinutes, sessionCount) ==
    IF remainingMinutes > 0
    THEN LET n == sessionCount + 1
             workSessionMinutes == Min(workMinutes, remainingMinutes)
             rest == remainingMinutes - workSessionMinutes
         IN  <<WorkSession(task, index, n, workSessionMinutes, workMinutes, t)>>
             \o (IF rest > 0 THEN <<Break(index, n, breakMinutes, t)>> ELSE <<>>)
             \o Sessions(task, index, workMinutes, breakMinutes, t, rest, n)
    ELSE <<>>

RECURSIVE ExpandFrom(_, _, _, _, _)
ExpandFrom(prevTasks, index, workMinutes, breakMinutes, t) ==
    IF index < Len(prevTasks)
    THEN Sessions(prevTasks[index + 1], index, workMinutes, breakMinutes, t,
                  prevTasks[index + 1].minutes, 0)
         \o (IF index < Len(prevTasks) - 1
             THEN <<TaskBreak(index, breakMinutes, t)>>
             ELSE <<>>)
         \o ExpandFrom(prevTasks, index + 1, workMinutes, breakMinutes, t)
    ELSE <<>>

Expand(prevTasks, workMinutes, breakMinutes, t) ==
    ExpandFrom(prevTasks, 0, workMinutes, breakMinutes, t)

(***************************************************************************)
(* The while loop never ends when a session does not reduce                *)
(* remainingMinutes: the updater does not return and the page stops.       *)
(***************************************************************************)
Diverges(prevTasks, workMinutes) ==
    workMinutes <= 0 /\ \E i \in Indices(prevTasks) : prevTasks[i].minutes > 0

ExpandedLen(prevTasks, workMinutes) ==
    LET RECURSIVE Count(_)
        Count(i) ==
            IF i > Len(prevTasks) THEN 0
            ELSE (IF prevTasks[i].minutes > 0
                  THEN 2 * Ceil(prevTasks[i].minutes, workMinutes) - 1
                  ELSE 0)
                 + (IF i < Len(prevTasks) THEN 1 ELSE 0) + Count(i + 1)
    IN  Count(1)

handleAddPomodoro(workMinutes, breakMinutes) ==
    /\ phase = "ready"
    /\ Event
    /\ IF Diverges(tasks, workMinutes)
       THEN /\ phase' = "hung"
            /\ UNCHANGED <<tasks, storage, timer>>
            /\ lastOp' = Op("handleAddPomodoro", <<workMinutes, breakMinutes>>, FALSE, 0)
       ELSE /\ ExpandedLen(tasks, workMinutes) <= MaxExpanded
            /\ Commit(Expand(tasks, workMinutes, breakMinutes, now))
            /\ phase' = phase
            /\ lastOp' = Op("handleAddPomodoro", <<workMinutes, breakMinutes>>, TRUE, 0)
    /\ UNCHANGED <<autoPlay, now>>

Next ==
    \/ Mount
    \/ Tick
    \/ ClockAdvance
    \/ \E task \in NameInputs, minutes \in MinutesInputs : addTask(task, minutes)
    \/ \E id \in IdsOf(tasks) : removeTask(id)
    \/ \E id \in IdsOf(tasks) \cup AbsentIds : toggleRunning(id)
    \/ toggleAutoPlay
    \/ \E id \in IdsOf(tasks) : resetTask(id)
    \/ resetAllTask
    \/ \E confirmed \in BOOLEAN : clearAllTasks(confirmed)
    \/ \E activeId \in IdsOf(tasks), overId \in IdsOf(tasks) :
            handleDragEnd(activeId, overId)
    \/ \E workMinutes \in WorkInputs, breakMinutes \in BreakInputs :
            handleAddPomodoro(workMinutes, breakMinutes)

Spec == Init /\ [][Next]_vars

(***************************************************************************)
(* A session in progress.  The list is one the App can hold after earlier  *)
(* handlers and ticks: one-minute tasks that are idle or running, with     *)
(* some seconds left or counted down to 0 and completed by that tick.      *)
(***************************************************************************)
DrawnTimeLeft == {0, 1, 2}

DrawnTask(i) ==
    {Task(i, <<"A">>, 1, tl, r, tl = 0, "countdown") :
        tl \in DrawnTimeLeft, r \in BOOLEAN}

DrawnLists(maxLen) ==
    UNION {{s \in [1..n -> UNION {DrawnTask(i) : i \in 1..n}] :
                \A i \in 1..n : s[i] \in DrawnTask(i)} : n \in 1..maxLen}

InSession(lists) ==
    /\ tasks \in lists
    /\ autoPlay \in BOOLEAN
    /\ storage = Save(tasks)
    /\ now \in ClockStart
    /\ phase = "ready"
    /\ events = 0
    /\ lastOp = Op("init", <<>>, FALSE, 0)
    /\ timer = Interval

(***************************************************************************)
(* The timed session: time passes until the interval created by the last   *)
(* run of the interval effect is due, and the callback runs when it is.    *)
(***************************************************************************)
ElapseSteps == {500, 1000}

Elapse(ms) ==
    /\ phase = "ready"
    /\ Event
    /\ ms <= timer
    /\ timer' = timer - ms
    /\ now' = now + ms
    /\ lastOp' = Op("elapse", <<ms>>, FALSE, 0)
    /\ UNCHANGED <<tasks, autoPlay, storage, phase>>

TimedTick ==
    /\ timer = 0
    /\ Tick

InitTimed == InSession(DrawnLists(MaxSession))

NextTimed ==
    \/ \E ms \in ElapseSteps : Elapse(ms)
    \/ TimedTick
    \/ \E id \in IdsOf(tasks) : toggleRunning(id)
    \/ toggleAutoPlay
    \/ \E id \in IdsOf(tasks) : resetTask(id)

SpecTimed == InitTimed /\ [][NextTimed]_vars

(***************************************************************************)
(* The unattended run: no handler is called, the interval keeps firing.    *)
(***************************************************************************)
UnattendedTick ==
    /\ TickCallback
    /\ UNCHANGED events

InitChain == InSession(DrawnLists(MaxChain))

NextChain == UnattendedTick

SpecChain == InitChain /\ [][NextChain]_vars /\ WF_vars(NextChain)

(***************************************************************************)
(* Properties.  In an action formula `tasks` is the list before the step    *)
(* and tasks' the list after it; lastOp' names the handler that made the   *)
(* step and its arguments.                                                 *)
(***************************************************************************)
SomeCounting(ts) == \E i \in Indices(ts) : ts[i].running /\ ts[i].timeLeft > 0

SameRunning(i) == tasks'[i].running = tasks[i].running

FirstCompleting(ts) ==
    CHOOSE i \in Indices(ts) :
        /\ ts[i].running /\ ts[i].timeLeft = 1
        /\ \A j \in 1..(i - 1) : ~(ts[j].running /\ ts[j].timeLeft = 1)

\* C1: with autoplay enabled, a tick that brings the first running task at
\* index i from timeLeft 1 to 0 leaves task i with timeLeft 0, completed and
\* not running, and task i+1, if it exists and has timeLeft > 0, running; no
\* other task's running flag changes; with autoplay disabled (or with no
\* task completing) a tick changes no running flag.
C1_AutoplayHandOff ==
    [][lastOp'.op = "tick" =>
        /\ Len(tasks') = Len(tasks)
        /\ IF autoPlay /\ \E i \in Indices(tasks) :
                            tasks[i].running /\ tasks[i].timeLeft = 1
           THEN LET i == FirstCompleting(tasks)
                IN  /\ tasks'[i].timeLeft = 0
                    /\ tasks'[i].completed
                    /\ ~tasks'[i].running
                    /\ (i < Len(tasks) /\ tasks'[i + 1].timeLeft > 0)
                            => tasks'[i + 1].running
                    /\ \A j \in Indices(tasks) \ {i, i + 1} : SameRunning(j)
           ELSE \A j \in Indices(tasks) : SameRunning(j)]_vars

\* C1 witness: the last tick handed off from task i to a task i+1 that has
\* time left.
C1_Witness ==
    /\ lastOp.op = "tick"
    /\ autoPlay
    /\ lastOp.idx > 0
    /\ lastOp.idx < Len(tasks)
    /\ tasks[lastOp.idx].timeLeft = 0
    /\ tasks[lastOp.idx].completed
    /\ ~tasks[lastOp.idx].running
    /\ tasks[lastOp.idx + 1].running
    /\ tasks[lastOp.idx + 1].timeLeft > 0

\* C2: on a tick with at least one task running with timeLeft > 0, every
\* such task loses exactly one second and is completed when it reaches 0,
\* every task that is not running or has timeLeft 0 keeps its timeLeft, and
\* the ids keep their order.
C2_TickStep ==
    [][(lastOp'.op = "tick" /\ SomeCounting(tasks)) =>
        /\ IdSeq(tasks') = IdSeq(tasks)
        /\ \A i \in Indices(tasks) :
            /\ (tasks[i].running /\ tasks[i].timeLeft > 0) =>
                    /\ tasks'[i].timeLeft = tasks[i].timeLeft - 1
                    /\ (tasks'[i].timeLeft = 0 => tasks'[i].completed)
            /\ (~tasks[i].running \/ tasks[i].timeLeft = 0) =>
                    tasks'[i].timeLeft = tasks[i].timeLeft]_vars

\* C2 witness: an effective tick without autoplay after which one running
\* task has just completed and another running task is still counting.
C2_Witness ==
    /\ lastOp.op = "tick"
    /\ lastOp.saved
    /\ ~autoPlay
    /\ \E i, j \in Indices(tasks) :
        /\ tasks[i].running /\ tasks[i].timeLeft = 0 /\ tasks[i].completed
        /\ tasks[j].running /\ tasks[j].timeLeft = 1

\* C3: a tick on a list in which no task is running with timeLeft > 0
\* leaves the list as it is, commits no snapshot and writes nothing to
\* storage.
C3_IdleTickNoOp ==
    [][(lastOp'.op = "tick" /\ ~SomeCounting(tasks)) =>
        /\ tasks' = tasks
        /\ storage' = storage
        /\ ~lastOp'.saved]_vars

\* C3 witness: a tick that wrote nothing although a task still has its
\* running flag set (its timeLeft is 0).
C3_Witness ==
    /\ lastOp.op = "tick"
    /\ ~lastOp.saved
    /\ \E i \in Indices(tasks) : tasks[i].running /\ tasks[i].timeLeft = 0

\* C4: in every reachable state every task satisfies
\* 0 <= timeLeft <= minutes*60.
C4_TimeLeftInRange ==
    \A i \in Indices(tasks) :
        /\ 0 <= tasks[i].timeLeft
        /\ tasks[i].timeLeft <= tasks[i].minutes * 60

\* C5: the ids of the tasks in the list are pairwise distinct in every
\* reachable state.
C5_UniqueIds ==
    \A i, j \in Indices(tasks) : i # j => tasks[i].id # tasks[j].id

\* C6: in every reachable state a task is completed if and only if its
\* timeLeft is 0.
C6_CompletedIffZero ==
    \A i \in Indices(tasks) : tasks[i].completed <=> tasks[i].timeLeft = 0

\* C7: toggleRunning(id) flips the running flag of the tasks with that id
\* and leaves every other task, every other field and every position as it
\* was, with autoplay on or off; with no matching id the list contents are
\* unchanged.
C7_ToggleFrame ==
    [][lastOp'.op = "toggleRunning" =>
        /\ Len(tasks') = Len(tasks)
        /\ \A i \in Indices(tasks) :
            IF tasks[i].id = lastOp'.args[1]
            THEN tasks'[i] = [tasks[i] EXCEPT !.running = ~tasks[i].running]
            ELSE tasks'[i] = tasks[i]]_vars

\* C7 witness: with autoplay on, the task just toggled is running and a
\* sibling is still running.
C7_Witness ==
    /\ lastOp.op = "toggleRunning"
    /\ autoPlay
    /\ \E i, j \in Indices(tasks) :
        /\ tasks[i].id = lastOp.args[1]
        /\ tasks[j].id # lastOp.args[1]
        /\ tasks[i].running
        /\ tasks[j].running

\* C8: resetTask(id) leaves the matching task with timeLeft = minutes*60 and
\* not running and every other task unchanged; resetAllTasks leaves every
\* task with timeLeft = minutes*60 and not running; neither changes the ids
\* or their order.
C8_Reset ==
    [][/\ lastOp'.op = "resetTask" =>
            /\ IdSeq(tasks') = IdSeq(tasks)
            /\ \A i \in Indices(tasks) :
                IF tasks[i].id = lastOp'.args[1]
                THEN /\ tasks'[i].minutes = tasks[i].minutes
                     /\ tasks'[i].timeLeft = tasks[i].minutes * 60
                     /\ ~tasks'[i].running
                ELSE tasks'[i] = tasks[i]
       /\ lastOp'.op = "resetAllTask" =>
            /\ IdSeq(tasks') = IdSeq(tasks)
            /\ \A i \in Indices(tasks) :
                /\ tasks'[i].minutes = tasks[i].minutes
                /\ tasks'[i].timeLeft = tasks[i].minutes * 60
                /\ ~tasks'[i].running]_vars

\* C8 witness: resetTask has just restored a task that had run down to 0
\* (it still carries completed) while another task keeps running.
C8_Witness ==
    /\ lastOp.op = "resetTask"
    /\ \E i \in Indices(tasks) :
        /\ tasks[i].id = lastOp.args[1]
        /\ tasks[i].completed
        /\ tasks[i].timeLeft = tasks[i].minutes * 60
        /\ ~tasks[i].running

\* C9: reorder(activeId, overId) with equal ids leaves the id sequence
\* unchanged; otherwise the task at activeId's position is removed and
\* reinserted at overId's position, the tasks in between shift by one slot,
\* all others stay, and no task's fields change.
C9_Reorder ==
    [][lastOp'.op = "handleDragEnd" =>
        LET a == lastOp'.args[1]
            o == lastOp'.args[2]
            from == CHOOSE i \in Indices(tasks) :
                        tasks[i].id = a /\ \A j \in 1..(i - 1) : tasks[j].id # a
            to == CHOOSE i \in Indices(tasks) :
                        tasks[i].id = o /\ \A j \in 1..(i - 1) : tasks[j].id # o
        IN  IF a = o
            THEN IdSeq(tasks') = IdSeq(tasks)
            ELSE /\ Len(tasks') = Len(tasks)
                 /\ \A k \in Indices(tasks) :
                        tasks'[k] =
                            IF k = to THEN tasks[from]
                            ELSE IF from <= k /\ k < to THEN tasks[k + 1]
                            ELSE IF to < k /\ k <= from THEN tasks[k - 1]
                            ELSE tasks[k]]_vars

\* C9 witness: the drag of the first of three tasks (ids 1, 2, 10) onto the
\* third has turned the id sequence 1,2,10 into 2,10,1.
C9_Witness ==
    /\ lastOp.op = "handleDragEnd"
    /\ lastOp.args = <<1, 10>>
    /\ IdSeq(tasks) = <<2, 10, 1>>

(***************************************************************************)
(* The list the Pomodoro expansion is said to produce, as the sequence of  *)
(* <<kind, minutes>> of its tasks: per original task with minutes m,       *)
(* ceil(m/w) work sessions of min(w, remaining) minutes with one break of  *)
(* b minutes between consecutive sessions, then one task-break of b        *)
(* minutes unless the task is the last.                                    *)
(***************************************************************************)
SessionCount(m, w) == -((-m) \div w)

SessionMinutes(m, w, n) == IF w < m - (n - 1) * w THEN w ELSE m - (n - 1) * w

RECURSIVE SumSessions(_, _, _)
SumSessions(m, w, n) ==
    IF n <= 0 THEN 0 ELSE SessionMinutes(m, w, n) + SumSessions(m, w, n - 1)

RECURSIVE PlanSessions(_, _, _, _)
PlanSessions(m, w, b, n) ==
    IF n > SessionCount(m, w) THEN <<>>
    ELSE <<<<"work", SessionMinutes(m, w, n)>>>>
         \o (IF n < SessionCount(m, w) THEN << <<"break", b>> >> ELSE <<>>)
         \o PlanSessions(m, w, b, n + 1)

RECURSIVE Plan(_, _, _, _)
Plan(ts, i, w, b) ==
    IF i > Len(ts) THEN <<>>
    ELSE PlanSessions(ts[i].minutes, w, b, 1)
         \o (IF i < Len(ts) THEN << <<"taskBreak", b>> >> ELSE <<>>)
         \o Plan(ts, i + 1, w, b)

Kind(t) ==
    IF "isPomodoroWork" \in t.tags THEN "work"
    ELSE IF "isPomodoroTaskBreak" \in t.tags THEN "taskBreak"
    ELSE IF "isPomodoroBreak" \in t.tags THEN "break"
    ELSE "task"

\* C10: a Pomodoro expansion with positive w and b replaces the list by, for
\* each original task with minutes m in order, exactly ceil(m/w) work
\* sessions of min(w, remaining) minutes that sum to m, one break of b
\* minutes between consecutive sessions, and one task-break of b minutes
\* after every original task but the last; every produced task has
\* timeLeft = minutes*60 and is neither running nor completed.
C10_Expansion ==
    [][(/\ lastOp'.op = "handleAddPomodoro"
        /\ lastOp'.saved
        /\ lastOp'.args[1] > 0
        /\ lastOp'.args[2] > 0) =>
        LET w == lastOp'.args[1]
            b == lastOp'.args[2]
        IN  /\ \A i \in Indices(tasks) :
                /\ SessionCount(tasks[i].minutes, w) >= 0
                /\ SumSessions(tasks[i].minutes, w,
                               SessionCount(tasks[i].minutes, w)) = tasks[i].minutes
            /\ [k \in Indices(tasks') |-> <<Kind(tasks'[k]), tasks'[k].minutes>>]
                    = Plan(tasks, 1, w, b)
            /\ \A k \in Indices(tasks') :
                /\ tasks'[k].timeLeft = tasks'[k].minutes * 60
                /\ ~tasks'[k].running
                /\ ~tasks'[k].completed]_vars

(***************************************************************************)
(* C11: the mount of a persisted array yields a list in which no task is   *)
(* running, whatever `running` was persisted, and which keeps the order,   *)
(* ids, names, minutes, timeLeft and completed of the persisted records.   *)
(***************************************************************************)
SameRecord(loaded, persisted) ==
    /\ loaded.id = persisted.id
    /\ loaded.name = persisted.name
    /\ loaded.minutes = persisted.minutes
    /\ loaded.timeLeft = persisted.timeLeft
    /\ loaded.completed = persisted.completed

C11_LoadStopsRunning ==
    [][lastOp'.op = "mount" /\ storage.kind = "array"
       => /\ Len(tasks') = Len(storage.val)
          /\ \A i \in Indices(storage.val) :
                /\ ~tasks'[i].running
                /\ SameRecord(tasks'[i], storage.val[i])]_vars

C11_Witness ==
    /\ lastOp.op = "mount"
    /\ lastOp.args = <<2>>
    /\ Len(tasks) = 2
    /\ \A i \in Indices(tasks) : ~tasks[i].running
    /\ IdSeq(tasks) = <<1, 2>>
    /\ tasks[1].timeLeft = 2
    /\ tasks[2].timeLeft = 1

(***************************************************************************)
(* C12: write-through persistence.  Once the effects of the mount have     *)
(* run, and after every handler or tick with its save effect, the entry    *)
(* holds the serialization of the whole current list (of the empty list    *)
(* after a confirmed clear-all).                                           *)
(***************************************************************************)
C12_WriteThrough == phase # "render" => storage = Save(tasks)

C12_Witness ==
    /\ lastOp.op = "clearAllTasks"
    /\ lastOp.saved
    /\ tasks = <<>>
    /\ storage = Save(<<>>)

(***************************************************************************)
(* C13: when the entry is unparsable, the list is empty and the storage    *)
(* key holds no entry once the mount (load effect plus initial save) has   *)
(* finished.                                                               *)
(***************************************************************************)
C13_CorruptRemoved ==
    [][lastOp'.op = "mount" /\ storage.kind = "corrupt"
       => tasks' = <<>> /\ storage' = Absent]_vars

(***************************************************************************)
(* C14: addTask with a text that is empty after trimming leaves the list   *)
(* unchanged; with any other text it appends exactly one task at the end,  *)
(* not running, not completed, with timeLeft = minutes * 60, where minutes *)
(* is the given number when it is positive and 60 when the field is empty  *)
(* (absent or not a number), zero or negative.                             *)
(***************************************************************************)
Blank(text) == \A k \in 1..Len(text) : text[k] = " "

GivenMinutes(field) == IF field # <<>> /\ field[1] > 0 THEN field[1] ELSE 60

C14_AddTask ==
    [][lastOp'.op = "addTask"
       => IF Blank(lastOp'.text)
          THEN tasks' = tasks
          ELSE /\ Len(tasks') = Len(tasks) + 1
               /\ SubSeq(tasks', 1, Len(tasks)) = tasks
               /\ LET added == tasks'[Len(tasks')]
                  IN  /\ added.minutes = GivenMinutes(lastOp'.args)
                      /\ added.timeLeft = GivenMinutes(lastOp'.args) * 60
                      /\ ~added.running
                      /\ ~added.completed]_vars

C14_Witness ==
    /\ lastOp.op = "addTask"
    /\ lastOp.args = <<-1>>
    /\ lastOp.text = <<" ", "A">>
    /\ Len(tasks) = 2
    /\ tasks[2].name = <<"A">>
    /\ tasks[2].minutes = 60
    /\ tasks[2].timeLeft = 3600

(***************************************************************************)
(* C15: a task completed by the tick that brought its timeLeft to 0 is     *)
(* never set back to completed = false by a later tick, also when          *)
(* resetTask and toggleRunning come in between.                            *)
(***************************************************************************)
C15_CompletedStays ==
    [][lastOp'.op = "tick"
       => \A i \in Indices(tasks) :
             tasks[i].completed => tasks'[i].completed]_vars

(***************************************************************************)
(* C16: when a tick with autoplay on brings several running tasks to 0,    *)
(* the hand-off acts on the first of them in list order only: that task    *)
(* alone is stopped and only its immediate successor may be started; every *)
(* other task completed by the tick keeps running = true and the tick does *)
(* not start its successor.                                                *)
(***************************************************************************)
ReachingZero(ts) == {i \in Indices(ts) : ts[i].running /\ ts[i].timeLeft = 1}

FirstOf(S) == CHOOSE i \in S : \A j \in S : i <= j

C16_SingleHandOff ==
    [][lastOp'.op = "tick" /\ autoPlay /\ Cardinality(ReachingZero(tasks)) >= 2
       => LET first == FirstOf(ReachingZero(tasks))
              others == ReachingZero(tasks) \ {first}
          IN  /\ ~tasks'[first].running
              /\ \A j \in others :
                    /\ tasks'[j].running
                    /\ tasks'[j].timeLeft = 0
                    /\ j + 1 <= Len(tasks) /\ ~tasks[j + 1].running
                          => ~tasks'[j + 1].running
              /\ \A k \in Indices(tasks) \ {first, first + 1} :
                    tasks'[k].running = tasks[k].running]_vars

C16_Witness ==
    /\ lastOp.op = "tick"
    /\ lastOp.args = <<2>>
    /\ lastOp.idx = 1
    /\ autoPlay
    /\ Len(tasks) = 3
    /\ ~tasks[1].running /\ tasks[1].timeLeft = 0
    /\ tasks[2].running /\ tasks[2].timeLeft = 0 /\ tasks[2].completed
    /\ ~tasks[3].running /\ tasks[3].timeLeft = 2

(***************************************************************************)
(* C17: for a given task id, timeLeft never increases in a step other than *)
(* resetTask and resetAllTask and is never below 0; a tick, toggleRunning, *)
(* addTask, removeTask and a reorder leave the timeLeft of each surviving  *)
(* task as it was or, for a tick on a running task, exactly one less.      *)
(***************************************************************************)
FrameOps == {"tick", "toggleRunning", "addTask", "removeTask", "handleDragEnd"}

C17_TimeLeftMonotone ==
    [][lastOp'.op \notin {"resetTask", "resetAllTask"}
       => /\ \A j \in Indices(tasks') : tasks'[j].timeLeft >= 0
          /\ \A i \in Indices(tasks), j \in Indices(tasks') :
                tasks[i].id = tasks'[j].id
                => /\ tasks'[j].timeLeft <= tasks[i].timeLeft
                   /\ lastOp'.op \in FrameOps
                         => \/ tasks'[j].timeLeft = tasks[i].timeLeft
                            \/ /\ lastOp'.op = "tick"
                               /\ tasks[i].running
                               /\ tasks'[j].timeLeft = tasks[i].timeLeft - 1]_vars

(***************************************************************************)
(* C18: the tick scheduler runs independently of the user's actions: a     *)
(* list mutation or an autoplay toggle does not cancel, postpone or re-arm *)
(* the pending one-second tick, so the time left until the next tick is    *)
(* the same after the handler as before it.                                *)
(***************************************************************************)
UserOps ==
    {"addTask", "removeTask", "toggleRunning", "resetTask", "handleDragEnd",
     "toggleAutoPlay"}

C18_TickIndependent == [][lastOp'.op \in UserOps => timer' = timer]_vars

(***************************************************************************)
(* C19: every Pomodoro expansion the dialog submits has positive           *)
(* workMinutes and breakMinutes, and the expansion terminates with a       *)
(* finite list.                                                            *)
(***************************************************************************)
C19_ExpansionTerminates ==
    [][lastOp'.op = "handleAddPomodoro"
       => /\ lastOp'.args[1] > 0
          /\ lastOp'.args[2] > 0
          /\ phase' # "hung"]_vars

(***************************************************************************)
(* C20: with autoplay on, no handler called and the interval firing, if    *)
(* some task is running with timeLeft > 0 then every task at or after it   *)
(* in list order eventually has timeLeft = 0 and completed = true and no   *)
(* task is running.                                                        *)
(***************************************************************************)
ChainDone(i) ==
    /\ \A j \in i..Len(tasks) : tasks[j].timeLeft = 0 /\ tasks[j].completed
    /\ \A k \in Indices(tasks) : ~tasks[k].running

ChainHead(i) ==
    /\ autoPlay
    /\ i \in Indices(tasks)
    /\ tasks[i].running
    /\ tasks[i].timeLeft > 0

C20_ChainCompletes == \A i \in 1..MaxChain : ChainHead(i) ~> ChainDone(i)

(***************************************************************************)
(* C20 as it holds: the same, when the task is the only running one and    *)
(* every task after it has timeLeft > 0.  The hand-off starts only the     *)
(* immediate successor and only when it has time left, and it stops only   *)
(* the first task a tick completes.  One after another: a step from such a *)
(* state keeps the head counting, or completes it and makes its successor  *)
(* the head, or completes the last task and leaves no task running.        *)
(***************************************************************************)
ChainHeadAlone(i) ==
    /\ ChainHead(i)
    /\ \A k \in Indices(tasks) \ {i} : ~tasks[k].running
    /\ \A j \in (i + 1)..Len(tasks) : tasks[j].timeLeft > 0

ChainAdvances(i) ==
    ChainHeadAlone(i)
    => \/ ChainHeadAlone(i)'
       \/ /\ ChainHeadAlone(i + 1)'
          /\ tasks'[i].timeLeft = 0 /\ tasks'[i].completed
       \/ /\ i = Len(tasks)
          /\ ChainDone(i)'

C20_ChainCompletesAlone ==
    /\ \A i \in 1..MaxChain : ChainHeadAlone(i) ~> ChainDone(i)
    /\ [][\A i \in 1..MaxChain : ChainAdvances(i)]_vars

C20_Witness ==
    /\ autoPlay
    /\ lastOp.op = "tick"
    /\ lastOp.args = <<1>>
    /\ lastOp.idx = 3
    /\ Len(tasks) = 3
    /\ ChainDone(1)

====
